---- MODULE Spec2Model ----
(***************************************************************************)
(* A model of nucleus/io/sam.py: the in-memory SAM reader                  *)
(* (InMemorySamReader), the native reader (NativeSamReader) behind the     *)
(* dispatching reader (SamReader), and the native writer stub              *)
(* (NativeSamWriter) behind the dispatching writer (SamWriter).            *)
(*                                                                         *)
(* Four specifications share the variables:                                *)
(*   SpecMem    one caller thread using an InMemorySamReader               *)
(*   SpecConc   replace_reads as its two assignments, interleavable        *)
(*   SpecReader one `with` scope around a NativeSamReader / SamReader      *)
(*   SpecWriter construction of and writes to NativeSamWriter / SamWriter  *)
(***************************************************************************)
EXTENDS Integers, Sequences, FiniteSets

VARIABLES
  \* ---- InMemorySamReader ------------------------------------------------
  reads,       \* self.reads: the stored list
  is_sorted,   \* self.is_sorted
  frame,       \* the replace_reads call in progress (its pending local), or NoFrame
  res,         \* what the caller holds: iterate()'s list or query()'s generator
  lastR,       \* history: the list argument of the latest replace_reads call
  pairedFlag,  \* history: the is_sorted argument passed together with lastR
  swapped,     \* history: whether the latest call changed the list / the flag
  \* ---- NativeSamReader / SamReader ---------------------------------------
  rd,          \* the reader object under construction or constructed
  scope,       \* position of the `with` block that owns the reader
  released,    \* how often the backend handle's __exit__ has run
  opened,      \* how often a backend was opened (from_file, make_sam_reader, TFRecord)
  calls,       \* the iterate/query calls made, each with the backend that served it
  stream,      \* the lazy sequence the caller is consuming
  \* ---- NativeSamWriter / SamWriter ---------------------------------------
  wr,          \* the writer object under construction or constructed
  written      \* the number of records written to any output

vars == <<reads, is_sorted, frame, res, lastR, pairedFlag, swapped,
          rd, scope, released, opened, calls, stream, wr, written>>

memVars == <<reads, is_sorted, frame, res, lastR, pairedFlag, swapped>>
readerVars == <<rd, scope, released, opened, calls, stream>>
writerVars == <<wr, written>>

(***************************************************************************)
(* Bounds.                                                                 *)
(***************************************************************************)
\* longest list handed to InMemorySamReader
MaxReads == 2
\* largest coordinate of a query region
MaxCoord == 3
\* most path components of an input or output path
MaxPathLen == 2
\* most iterate/query calls and pulls inside one scope
MaxPulls == 2
\* most write calls on one writer
MaxWrites == 2

(***************************************************************************)
(* Records and regions.  A read is reduced to its identity and the span    *)
(* utils.read_range derives from it; the three reads are the spec's        *)
(* example A(chr1), B(chr1), C(chr2) with A and B adjacent.                *)
(***************************************************************************)
Read(n, ref, s, e) == [name |-> n, reference_name |-> ref, start |-> s, end |-> e]

Reads == {Read("A", "chr1", 0, 2), Read("B", "chr1", 2, 3), Read("C", "chr2", 0, 2)}

RECURSIVE SeqsUpTo(_, _)
SeqsUpTo(S, n) ==
  IF n = 0 THEN {<<>>}
  ELSE LET shorter == SeqsUpTo(S, n - 1)
       IN  shorter \cup {Append(q, x) : q \in {p \in shorter : Len(p) = n - 1}, x \in S}

\* the lists a caller hands over: each read is an object of its own, so a
\* list holds it at most once; every order of every selection occurs
ReadLists == {q \in SeqsUpTo(Reads, MaxReads) :
                \A i, j \in 1..Len(q) : q[i] = q[j] => i = j}

\* chr1 holds A and B, chr2 holds C (or nothing, when C is not stored)
RegionRefs == {"chr1", "chr2"}

Regions == {g \in [reference_name : RegionRefs, start : 0..MaxCoord, end : 0..MaxCoord] :
              g.start <= g.end}

\* utils.read_range(read): the genomic span of a read
read_range(read) ==
  [reference_name |-> read.reference_name, start |-> read.start, end |-> read.end]

\* ranges.ranges_overlap(i1, i2)
ranges_overlap(i1, i2) ==
  /\ i1.reference_name = i2.reference_name
  /\ i1.end > i2.start
  /\ i1.start < i2.end

(***************************************************************************)
(* InMemorySamReader.                                                      *)
(***************************************************************************)
NoFrame == [pc |-> "none"]
NoResult == [kind |-> "none"]

\* a replace_reads makes whatever the caller still holds a result of an older list
Aged(r) == IF r.kind = "none" THEN r ELSE [r EXCEPT !.stale = TRUE]

\* The condition of the generator expression, with a zero-length region
\* treated as overlapping nothing.
Keep_EmptyRegionNothing(region, read) ==
  /\ region.start < region.end
  /\ ranges_overlap(region, read_range(read))

\* `if ranges.ranges_overlap(region, utils.read_range(read))`
Keep(region, read) == ranges_overlap(region, read_range(read))

\* The list a generator scans, were `self.reads` looked up at each pull.
GenIterable_Late(g) == reads

\* `for read in self.reads`: the outermost iterable of a generator expression
\* is evaluated when the expression is, so the generator scans that list.
GenIterable(g) == g.src

\* The scan of a generator that trusts is_sorted and stops at the first read
\* starting at or after the region's end.
RECURSIVE NextMatch_SortedStop(_, _, _)
NextMatch_SortedStop(src, i, region) ==
  IF i >= Len(src) THEN 0
  ELSE IF is_sorted /\ src[i + 1].start >= region.end THEN 0
  ELSE IF Keep(region, src[i + 1]) THEN i + 1
  ELSE NextMatch_SortedStop(src, i + 1, region)

\* One next() on the generator: advance the list iterator from index i until
\* a read passes the condition (its index) or the list ends (0).
RECURSIVE NextMatch(_, _, _)
NextMatch(src, i, region) ==
  IF i >= Len(src) THEN 0
  ELSE IF Keep(region, src[i + 1]) THEN i + 1
  ELSE NextMatch(src, i + 1, region)

\* replace_reads that extends the stored list instead of replacing it
InMemory_replace_reads_Extend(R, s) ==
  /\ frame = NoFrame
  /\ Len(reads) + Len(R) <= 2 * MaxReads
  /\ reads' = reads \o R
  /\ is_sorted' = s
  /\ lastR' = R
  /\ pairedFlag' = s
  /\ swapped' = [list |-> R # reads, flag |-> s # is_sorted]
  /\ res' = Aged(res)
  /\ UNCHANGED frame

\* InMemorySamReader.replace_reads(reads, is_sorted), run to completion by
\* the one caller thread
InMemory_replace_reads(R, s) ==
  /\ frame = NoFrame
  /\ reads' = R
  /\ is_sorted' = s
  /\ lastR' = R
  /\ pairedFlag' = s
  /\ swapped' = [list |-> R # reads, flag |-> s # is_sorted]
  /\ res' = Aged(res)
  /\ UNCHANGED frame

\* InMemorySamReader.iterate(): returns the stored list itself
InMemory_iterate ==
  /\ frame = NoFrame
  /\ res' = [kind |-> "iter", list |-> reads, stale |-> FALSE]
  /\ UNCHANGED <<reads, is_sorted, frame, lastR, pairedFlag, swapped>>

\* InMemorySamReader.query(region): creates the generator; nothing is scanned yet
InMemory_query(region) ==
  /\ frame = NoFrame
  /\ res' = [kind |-> "gen", src |-> reads, idx |-> 0, region |-> region,
             out |-> <<>>, done |-> FALSE, stale |-> FALSE]
  /\ UNCHANGED <<reads, is_sorted, frame, lastR, pairedFlag, swapped>>

\* next() on the generator query returned
Pull ==
  /\ frame = NoFrame
  /\ res.kind = "gen"
  /\ ~res.done
  /\ LET src == GenIterable(res)
         j == NextMatch(src, res.idx, res.region)
     IN  res' = IF j = 0
                THEN [res EXCEPT !.done = TRUE, !.idx = Len(src)]
                ELSE [res EXCEPT !.idx = j, !.out = Append(res.out, src[j])]
  /\ UNCHANGED <<reads, is_sorted, frame, lastR, pairedFlag, swapped>>

(***************************************************************************)
(* replace_reads as the two assignments it is, for a second thread that    *)
(* looks at the object between them.                                       *)
(***************************************************************************)
\* `self.reads = reads`; the call's is_sorted argument is still only a local
AssignReads(R, s) ==
  /\ frame = NoFrame
  /\ reads' = R
  /\ frame' = [pc |-> "is_sorted", is_sorted |-> s]
  /\ lastR' = R
  /\ pairedFlag' = s
  /\ swapped' = [list |-> R # reads, flag |-> s # is_sorted]
  /\ UNCHANGED <<is_sorted, res>>

\* the second assignment left out
AssignIsSorted_Skip ==
  /\ frame # NoFrame
  /\ frame' = NoFrame
  /\ UNCHANGED <<reads, is_sorted, res, lastR, pairedFlag, swapped>>

\* `self.is_sorted = is_sorted`, and the call returns
AssignIsSorted ==
  /\ frame # NoFrame
  /\ is_sorted' = frame.is_sorted
  /\ frame' = NoFrame
  /\ UNCHANGED <<reads, res, lastR, pairedFlag, swapped>>

(***************************************************************************)
(* Paths, options and the environment of a reader.  A path is its sequence *)
(* of components; a downsample fraction is None or a number of tenths.     *)
(***************************************************************************)
PathTokens == {"reads", ".bam", ".tfrecord", ".gz", ".tfbam"}

Paths == SeqsUpTo(PathTokens, MaxPathLen) \ {<<>>}

\* `marker in path`
Contains(path, marker) == \E i \in 1..Len(path) : path[i] = marker

\* `path.endswith(suffix)`
EndsWith(path, suffix) == Len(path) > 0 /\ path[Len(path)] = suffix

NoFraction == [given |-> FALSE, tenths |-> 0]

Fraction(t) == [given |-> TRUE, tenths |-> t]

\* None, -0.1, 0, 0.5, 1.0, 1.5
Fractions == {NoFraction} \cup {Fraction(t) : t \in {-1, 0, 5, 10, 15}}

\* the test `downsample_fraction is not None and downsample_fraction != 0`
\* followed by `not 0.0 < downsample_fraction <= 1.0`
FractionRejected(f) ==
  /\ f.given /\ f.tenths # 0
  /\ ~(0 < f.tenths /\ f.tenths <= 10)

NoReader ==
  [phase |-> "none", entry |-> "none", path |-> <<>>, fraction |-> NoFraction,
   tfbam_lib |-> FALSE, attempted |-> "none", kind |-> "none", inner |-> "none",
   err |-> "none", io |-> 0]

NoStream == [state |-> "none", op |-> "none", pulled |-> 0]

\* What a constructor leaves behind: the reader class that was constructed
\* (via), the backend that is bound when it succeeded (kind), the handle
\* NativeSamReader holds in self._reader (inner), the error raised, and the
\* number of backend opens that were attempted (io).
Outcome(via, kind, inner, err, io) ==
  [via |-> via, kind |-> kind, inner |-> inner, err |-> err, io |-> io]

\* NativeSamReader.__init__ that falls back to the native engine when
\* tfbam_lib is missing
NativeSamReader_init_Fallback(path, fraction, tfbam_lib, backendOk) ==
  IF EndsWith(path, ".tfbam") /\ tfbam_lib
  THEN IF backendOk THEN Outcome("native", "native", "tfbam", "none", 1)
       ELSE Outcome("native", "none", "none", "ResourceUnavailable", 1)
  ELSE IF FractionRejected(fraction) THEN Outcome("native", "none", "none", "ValueError", 0)
  ELSE IF backendOk THEN Outcome("native", "native", "sam", "none", 1)
  ELSE Outcome("native", "none", "none", "ResourceUnavailable", 1)

\* NativeSamReader.__init__(input_path, ..., downsample_fraction, ...).
\* tfbam_lib: whether `from tfbam_lib import tfbam_reader` succeeds;
\* backendOk: whether the backend that is asked opens the resource.
NativeSamReader_init(path, fraction, tfbam_lib, backendOk) ==
  IF EndsWith(path, ".tfbam")
  THEN IF ~tfbam_lib THEN Outcome("native", "none", "none", "ImportError", 0)
       ELSE IF backendOk THEN Outcome("native", "native", "tfbam", "none", 1)
       ELSE Outcome("native", "none", "none", "ResourceUnavailable", 1)
  ELSE IF FractionRejected(fraction) THEN Outcome("native", "none", "none", "ValueError", 0)
  ELSE IF backendOk THEN Outcome("native", "native", "sam", "none", 1)
  ELSE Outcome("native", "none", "none", "ResourceUnavailable", 1)

\* SamReader._native_reader returning a container reader
SamReader_native_reader_Container(path, fraction, tfbam_lib, backendOk) ==
  IF backendOk THEN Outcome("tfrecord", "tfrecord", "none", "none", 1)
  ELSE Outcome("tfrecord", "none", "none", "ResourceUnavailable", 1)

\* SamReader._native_reader(input_path, **kwargs)
SamReader_native_reader(path, fraction, tfbam_lib, backendOk) ==
  NativeSamReader_init(path, fraction, tfbam_lib, backendOk)

\* The backend DispatchingGenomicsReader.__init__ constructs for a path
DispatchRule(path) == IF Contains(path, ".tfrecord") THEN "tfrecord" ELSE "native"

\* DispatchingGenomicsReader.__init__(input_path, **kwargs)
DispatchingReader_init(path, fraction, tfbam_lib, backendOk) ==
  IF DispatchRule(path) = "tfrecord"
  THEN IF backendOk THEN Outcome("tfrecord", "tfrecord", "none", "none", 1)
       ELSE Outcome("tfrecord", "none", "none", "ResourceUnavailable", 1)
  ELSE SamReader_native_reader(path, fraction, tfbam_lib, backendOk)

\* The reader object and the `with` block after a constructor ran: a
\* constructor that raised never enters the block.
Constructed(entry, path, fraction, tfbam_lib, o) ==
  /\ rd' = [phase |-> IF o.err = "none" THEN "open" ELSE "failed",
            entry |-> entry, path |-> path, fraction |-> fraction,
            tfbam_lib |-> tfbam_lib,
            attempted |-> o.via,
            kind |-> o.kind, inner |-> o.inner, err |-> o.err, io |-> o.io]
  /\ opened' = opened + o.io
  /\ scope' = IF o.err = "none" THEN [at |-> "active", how |-> "none"]
              ELSE [at |-> "never", how |-> "none"]
  /\ UNCHANGED <<released, calls, stream>>

\* `with NativeSamReader(path, downsample_fraction=f) as reader:`
OpenNative(path, fraction, tfbam_lib, backendOk) ==
  /\ rd.phase = "none"
  /\ Constructed("native", path, fraction, tfbam_lib,
                 NativeSamReader_init(path, fraction, tfbam_lib, backendOk))

\* `with SamReader(path, downsample_fraction=f) as reader:`
OpenDispatch(path, fraction, tfbam_lib, backendOk) ==
  /\ rd.phase = "none"
  /\ Constructed("dispatch", path, fraction, tfbam_lib,
                 DispatchingReader_init(path, fraction, tfbam_lib, backendOk))

\* The backend a call on the reader ends up in: NativeSamReader.iterate and
\* .query return self._reader.iterate() / .query(region); the dispatching
\* reader forwards to the reader it bound.
ServedBy(r) == [kind |-> r.kind, inner |-> r.inner]

InBody == rd.phase = "open" /\ scope.at = "active"

\* reader.iterate() / reader.query(region): a new lazy sequence
StartStream(op) ==
  /\ InBody
  /\ stream.state # "active"
  /\ calls' = calls \cup {[op |-> op, by |-> ServedBy(rd)]}
  /\ stream' = [state |-> "active", op |-> op, pulled |-> 0]
  /\ UNCHANGED <<rd, scope, released, opened>>

Reader_iterate == StartStream("iterate")

Reader_query == StartStream("query")

\* a pull that yields a record
PullRecord ==
  /\ InBody
  /\ stream.state = "active"
  /\ stream.pulled < MaxPulls
  /\ stream' = [stream EXCEPT !.pulled = @ + 1]
  /\ UNCHANGED <<rd, scope, released, opened, calls>>

\* a pull that finds the sequence exhausted
PullEnd ==
  /\ InBody
  /\ stream.state = "active"
  /\ stream' = [stream EXCEPT !.state = "exhausted"]
  /\ UNCHANGED <<rd, scope, released, opened, calls>>

\* a pull in which the backend fails; the error is raised in the block
PullFail ==
  /\ InBody
  /\ stream.state = "active"
  /\ stream' = [stream EXCEPT !.state = "failed"]
  /\ UNCHANGED <<rd, scope, released, opened, calls>>

\* NativeSamReader.__exit__ that does not forward to the backend
Reader_exit_NoForward(how) ==
  /\ InBody
  /\ scope' = [at |-> "ended", how |-> how]
  /\ UNCHANGED <<rd, released, opened, calls, stream>>

\* The `with` statement leaving the block: __exit__ of the reader, which is
\* self._reader.__exit__(exit_type, exit_value, exit_traceback)
Reader_exit(how) ==
  /\ InBody
  /\ scope' = [at |-> "ended", how |-> how]
  /\ released' = released + 1
  /\ UNCHANGED <<rd, opened, calls, stream>>

\* the block runs to its end
ExitNormal == stream.state \in {"none", "exhausted"} /\ Reader_exit("normal")

\* `break` out of a loop over an unfinished sequence
ExitBreak == stream.state = "active" /\ Reader_exit("break")

\* the error of a failed pull propagates out of the block
ExitException == stream.state = "failed" /\ Reader_exit("exception")

\* the block's own code raises, whatever the sequence is doing
ExitError == Reader_exit("error")

(***************************************************************************)
(* NativeSamWriter and SamWriter.                                          *)
(***************************************************************************)
Headers == {"unsorted", "coordinate"}

NoWriter ==
  [cls |-> "none", entry |-> "none", path |-> <<>>, header |-> "none",
   init |-> "none", held |-> FALSE, lastWrite |-> "none", attempts |-> 0,
   lastExit |-> "none"]

WriterOutcome(cls, init, held) == [cls |-> cls, init |-> init, held |-> held]

\* NativeSamWriter.__init__ that opens a writer
NativeSamWriter_init_Opens(path, header) == WriterOutcome("NativeSamWriter", "ok", TRUE)

\* NativeSamWriter.__init__(output_path, header): `raise NotImplementedError`
NativeSamWriter_init(path, header) ==
  WriterOutcome("NativeSamWriter", "NotImplementedError", FALSE)

\* SamWriter._native_writer(output_path, header)
SamWriter_native_writer(path, header) == NativeSamWriter_init(path, header)

\* DispatchingGenomicsWriter.__init__(output_path, header=header)
DispatchingWriter_init(path, header) ==
  IF DispatchRule(path) = "tfrecord"
  THEN WriterOutcome("TFRecordWriter", "ok", TRUE)
  ELSE SamWriter_native_writer(path, header)

WriterConstructed(entry, path, header, o) ==
  /\ wr.cls = "none"
  /\ wr' = [cls |-> o.cls, entry |-> entry, path |-> path, header |-> header,
            init |-> o.init, held |-> o.held, lastWrite |-> "none", attempts |-> 0,
            lastExit |-> "none"]
  /\ UNCHANGED written

\* `NativeSamWriter(path, header)`
NewNativeWriter(path, header) ==
  WriterConstructed("native", path, header, NativeSamWriter_init(path, header))

\* `SamWriter(path, header=header)`
NewDispatchWriter(path, header) ==
  WriterConstructed("dispatch", path, header, DispatchingWriter_init(path, header))

\* NativeSamWriter.write(proto): `raise NotImplementedError`.  __init__
\* always raises, so the object is one the caller made without it (a
\* subclass, __new__); the dispatching writer never hands one out.
NativeSamWriter_write ==
  /\ wr.cls = "NativeSamWriter"
  /\ wr.entry = "native"
  /\ wr.attempts < MaxWrites
  /\ wr' = [wr EXCEPT !.lastWrite = "NotImplementedError", !.attempts = @ + 1]
  /\ UNCHANGED written

\* NativeSamWriter.__exit__: `self._writer.__exit__(...)`, on an object that
\* never got a _writer
NativeSamWriter_exit ==
  /\ wr.cls = "NativeSamWriter"
  /\ wr.entry = "native"
  /\ wr.lastExit = "none"
  /\ wr' = [wr EXCEPT !.lastExit = "AttributeError"]
  /\ UNCHANGED written

\* write(proto) on the container writer the dispatching writer bound
TFRecordWriter_write ==
  /\ wr.cls = "TFRecordWriter"
  /\ wr.held
  /\ wr.attempts < MaxWrites
  /\ wr' = [wr EXCEPT !.lastWrite = "ok", !.attempts = @ + 1]
  /\ written' = written + 1

\* the scope of a container writer ends
TFRecordWriter_exit ==
  /\ wr.cls = "TFRecordWriter"
  /\ wr.held
  /\ wr' = [wr EXCEPT !.held = FALSE, !.lastExit = "ok"]
  /\ UNCHANGED written

(***************************************************************************)
(* Specifications.                                                         *)
(***************************************************************************)
MemQuiet ==
  /\ reads = <<>>
  /\ is_sorted = FALSE
  /\ frame = NoFrame
  /\ res = NoResult
  /\ lastR = <<>>
  /\ pairedFlag = FALSE
  /\ swapped = [list |-> FALSE, flag |-> FALSE]

ReaderQuiet ==
  /\ rd = NoReader
  /\ scope = [at |-> "before", how |-> "none"]
  /\ released = 0
  /\ opened = 0
  /\ calls = {}
  /\ stream = NoStream

WriterQuiet ==
  /\ wr = NoWriter
  /\ written = 0

\* InMemorySamReader.__init__(reads, is_sorted): replace_reads on a new object
InMemory_init ==
  /\ reads \in ReadLists
  /\ is_sorted \in BOOLEAN
  /\ frame = NoFrame
  /\ res = NoResult
  /\ lastR = reads
  /\ pairedFlag = is_sorted
  /\ swapped = [list |-> FALSE, flag |-> FALSE]

InitMem == InMemory_init /\ ReaderQuiet /\ WriterQuiet

NextMem ==
  \/ \E R \in ReadLists, s \in BOOLEAN :
       InMemory_replace_reads(R, s) /\ UNCHANGED <<readerVars, writerVars>>
  \/ InMemory_iterate /\ UNCHANGED <<readerVars, writerVars>>
  \/ \E region \in Regions : InMemory_query(region) /\ UNCHANGED <<readerVars, writerVars>>
  \/ Pull /\ UNCHANGED <<readerVars, writerVars>>

SpecMem == InitMem /\ [][NextMem]_vars

InitConc == InMemory_init /\ ReaderQuiet /\ WriterQuiet

NextConc ==
  \/ \E R \in ReadLists, s \in BOOLEAN :
       AssignReads(R, s) /\ UNCHANGED <<readerVars, writerVars>>
  \/ AssignIsSorted /\ UNCHANGED <<readerVars, writerVars>>

SpecConc == InitConc /\ [][NextConc]_vars

InitReader == MemQuiet /\ ReaderQuiet /\ WriterQuiet

NextReader ==
  \/ /\ rd.phase = "none"
     /\ \E path \in Paths, f \in Fractions, lib \in BOOLEAN, ok \in BOOLEAN :
          OpenNative(path, f, lib, ok) /\ UNCHANGED <<memVars, writerVars>>
  \/ /\ rd.phase = "none"
     /\ \E path \in Paths, f \in Fractions, lib \in BOOLEAN, ok \in BOOLEAN :
          OpenDispatch(path, f, lib, ok) /\ UNCHANGED <<memVars, writerVars>>
  \/ Reader_iterate /\ UNCHANGED <<memVars, writerVars>>
  \/ Reader_query /\ UNCHANGED <<memVars, writerVars>>
  \/ PullRecord /\ UNCHANGED <<memVars, writerVars>>
  \/ PullEnd /\ UNCHANGED <<memVars, writerVars>>
  \/ PullFail /\ UNCHANGED <<memVars, writerVars>>
  \/ ExitNormal /\ UNCHANGED <<memVars, writerVars>>
  \/ ExitBreak /\ UNCHANGED <<memVars, writerVars>>
  \/ ExitException /\ UNCHANGED <<memVars, writerVars>>
  \/ ExitError /\ UNCHANGED <<memVars, writerVars>>

SpecReader == InitReader /\ [][NextReader]_vars

InitWriter == MemQuiet /\ ReaderQuiet /\ WriterQuiet

NextWriter ==
  \/ /\ wr.cls = "none"
     /\ \E path \in Paths, h \in Headers :
          NewNativeWriter(path, h) /\ UNCHANGED <<memVars, readerVars>>
  \/ /\ wr.cls = "none"
     /\ \E path \in Paths, h \in Headers :
          NewDispatchWriter(path, h) /\ UNCHANGED <<memVars, readerVars>>
  \/ NativeSamWriter_write /\ UNCHANGED <<memVars, readerVars>>
  \/ NativeSamWriter_exit /\ UNCHANGED <<memVars, readerVars>>
  \/ TFRecordWriter_write /\ UNCHANGED <<memVars, readerVars>>
  \/ TFRecordWriter_exit /\ UNCHANGED <<memVars, readerVars>>

SpecWriter == InitWriter /\ [][NextWriter]_vars

(***************************************************************************)
(* Claims about InMemorySamReader (SpecMem, SpecConc).                     *)
(***************************************************************************)
\* a read's span and a region share their reference and, as half-open
\* intervals, overlap
OverlapsRegion(region, r) ==
  /\ r.reference_name = region.reference_name
  /\ region.start < r.end
  /\ r.start < region.end

Elems(q) == {q[i] : i \in 1..Len(q)}

Consumed == res.kind = "gen" /\ res.done

\* C1: a query that is consumed while the stored list stays in place yields
\* exactly the stored reads whose span overlaps the region, each occurrence
\* once and in list order; as a set that is the overlapping part of the set of
\* stored reads, whatever the list's order and whatever is_sorted says; a
\* region on a reference without stored reads yields nothing.
C1_QueryYieldsOverlapping ==
  (Consumed /\ ~res.stale) =>
    /\ res.out = SelectSeq(reads, LAMBDA r : OverlapsRegion(res.region, r))
    /\ Elems(res.out) = {r \in Elems(reads) : OverlapsRegion(res.region, r)}
    /\ (\A r \in Elems(reads) : r.reference_name # res.region.reference_name)
         => res.out = <<>>

\* C1's case: is_sorted is TRUE, the list is not sorted, and the query has
\* yielded both of its reads
C1_Witness ==
  /\ Consumed /\ ~res.stale
  /\ is_sorted
  /\ Len(reads) = 2 /\ reads[1].start > reads[2].start
  /\ Len(res.out) = 2

\* C5: what iterate returns after replace_reads(R, s) is R, in R's order;
\* what a query made after it yields are reads of R; after replace_reads([])
\* both are empty.
C5_ReplaceFullyReplaces ==
  /\ (res.kind = "iter" /\ ~res.stale) => res.list = lastR
  /\ (res.kind = "gen" /\ ~res.stale) => Elems(res.out) \subseteq Elems(lastR)
  /\ (res.kind = "gen" /\ ~res.stale /\ lastR = <<>>) => res.out = <<>>

\* C5's case: a non-empty list was replaced by the empty one and iterate
\* was called after that
C5_Witness ==
  /\ res.kind = "iter" /\ ~res.stale
  /\ swapped.list
  /\ lastR = <<>>
  /\ res.list = <<>>

C10_GeneratorBoundToList ==
  res.kind = "gen" =>
    LET want == SelectSeq(res.src, LAMBDA r : OverlapsRegion(res.region, r))
    IN  /\ Len(res.out) <= Len(want)
        /\ res.out = SubSeq(want, 1, Len(res.out))
        /\ res.done => res.out = want

\* C10's case: the list was replaced after query, and the consumed generator
\* yielded a read that the list now stored does not hold
C10_Witness ==
  /\ Consumed /\ res.stale
  /\ \E r \in Elems(res.out) : r \notin Elems(reads)

\* C6 as stated: whenever the list of the latest call is in place and differs
\* from the one before, the flag in place is that call's flag.
C6_NoPartialState == swapped.list => is_sorted = pairedFlag

\* C6 amended: the list is in place from the first assignment on; the flag
\* still is the old one until the call returns, and is the call's flag once
\* it has returned.
C6_SwapInTwoSteps ==
  /\ reads = lastR
  /\ frame = NoFrame => is_sorted = pairedFlag
  /\ frame # NoFrame =>
       /\ frame.is_sorted = pairedFlag
       /\ swapped.flag <=> is_sorted # pairedFlag

\* C6's case: a call that changed both the list and the flag has returned
C6_Witness ==
  /\ frame = NoFrame
  /\ swapped.list /\ swapped.flag
  /\ is_sorted = pairedFlag

(***************************************************************************)
(* Claims about NativeSamReader and SamReader (SpecReader).                *)
(***************************************************************************)
\* a fraction outside {0} \cup (0.0, 1.0]
OutsideDomain(f) == f.given /\ ~(f.tenths = 0 \/ (0 < f.tenths /\ f.tenths <= 10))

\* C2 as stated: constructing a native reader with a fraction outside the
\* domain raises ValueError for every path, with no backend opened and no
\* handle held; a fraction inside the domain never raises ValueError.
C2_InvalidFractionValueError ==
  (rd.entry = "native" /\ rd.phase # "none") =>
    /\ OutsideDomain(rd.fraction) =>
         rd.err = "ValueError" /\ opened = 0 /\ rd.inner = "none"
    /\ ~OutsideDomain(rd.fraction) => rd.err # "ValueError"

\* C3: the dispatching reader constructs the container backend exactly for
\* the paths that contain '.tfrecord' and the native reader for all others;
\* the backend of a constructed reader is that one at every later point, and
\* every iterate and query call was served by it.
C3_OneBackendByPath ==
  rd.entry = "dispatch" =>
    /\ rd.attempted = (IF Contains(rd.path, ".tfrecord") THEN "tfrecord" ELSE "native")
    /\ rd.phase = "open" => rd.kind = rd.attempted
    /\ rd.phase = "failed" => rd.kind = "none"
    /\ \A c \in calls : c.by.kind = rd.attempted /\ c.by = ServedBy(rd)

\* C3's case: '.tfrecord' is in the path but not at its end, both iterate and
\* query were called, and the backend failed in mid-stream
C3_Witness ==
  /\ rd.entry = "dispatch" /\ rd.phase = "open"
  /\ Contains(rd.path, ".tfrecord") /\ ~EndsWith(rd.path, ".tfrecord")
  /\ Cardinality(calls) = 2
  /\ stream.state = "failed"

\* C4: the handle of an opened native reader has not been released while the
\* `with` block is running and has been released exactly once when it is left.
C4_ReleasedExactlyOnce ==
  rd.inner # "none" =>
    /\ scope.at = "active" => released = 0
    /\ scope.at = "ended" => released = 1

\* C4's case: a pull failed after a record was pulled, and the error left
\* the block of a native reader
C4_Witness ==
  /\ rd.entry = "native" /\ rd.inner = "sam"
  /\ scope = [at |-> "ended", how |-> "exception"]
  /\ stream.pulled > 0
  /\ released = 1

\* C7 as stated: opening any reader on a path ending in '.tfbam' without
\* tfbam_lib raises ImportError; no backend is bound, none was opened.
C7_TfbamImportError ==
  (rd.phase # "none" /\ EndsWith(rd.path, ".tfbam") /\ ~rd.tfbam_lib) =>
    /\ rd.err = "ImportError"
    /\ rd.kind = "none" /\ rd.inner = "none"
    /\ opened = 0 /\ scope.at = "never"

\* C7 amended: the same, for a native reader and for a dispatching reader
\* whose path does not contain '.tfrecord'.
C7_TfbamImportErrorNative ==
  (/\ rd.phase # "none" /\ EndsWith(rd.path, ".tfbam") /\ ~rd.tfbam_lib
   /\ (rd.entry = "native" \/ ~Contains(rd.path, ".tfrecord"))) =>
    /\ rd.err = "ImportError"
    /\ rd.kind = "none" /\ rd.inner = "none"
    /\ opened = 0 /\ scope.at = "never"

\* C7's case: the dispatching reader was asked for a '.tfbam' path without
\* tfbam_lib and construction raised ImportError
C7_Witness ==
  /\ rd.entry = "dispatch" /\ rd.phase = "failed"
  /\ EndsWith(rd.path, ".tfbam") /\ ~rd.tfbam_lib
  /\ rd.err = "ImportError"

(***************************************************************************)
(* Claims about NativeSamWriter and SamWriter (SpecWriter).                *)
(***************************************************************************)
\* C9: a native writer, constructed directly or by the dispatching writer
\* for a path without '.tfrecord', raised NotImplementedError in its
\* constructor and in every write; it holds no resource and nothing was
\* written.
C9_NativeWriterNotImplemented ==
  /\ wr.entry = "native" => wr.cls = "NativeSamWriter"
  /\ (wr.entry = "dispatch" /\ ~Contains(wr.path, ".tfrecord")) =>
       wr.cls = "NativeSamWriter"
  /\ wr.cls = "NativeSamWriter" =>
       /\ wr.init = "NotImplementedError"
       /\ ~wr.held
       /\ wr.attempts > 0 => wr.lastWrite = "NotImplementedError"
       /\ written = 0

\* C9's case: the constructor raised, and so did a write on the object
C9_Witness ==
  /\ wr.cls = "NativeSamWriter"
  /\ wr.init = "NotImplementedError"
  /\ wr.lastWrite = "NotImplementedError"

====
